---- MODULE Spec2Model ----
(***************************************************************************)
(* A model of iris.experimental.um: the FieldsFileVariant reader/writer.   *)
(*                                                                         *)
(* Files are modelled in words.  A file is a record                        *)
(*   [t |-> "file", ws, len, hdr, body, tell]                              *)
(* where ws is the width of its words in bytes, len its length in words,   *)
(* hdr the modelled words of its first 256 words (the fixed length         *)
(* header) and body a sparse map from word offsets >= 256 to the words     *)
(* written there; a word inside the file that is in no map is a hole and   *)
(* reads as zero.  A word is [k, n, h]: k is the kind it was written as    *)
(* ("i" integer, "f" floating point), and its value is n + h/2.            *)
(* Of each 64-word LOOKUP column only the words the codec reads or writes  *)
(* are kept, at their true offsets.                                        *)
(***************************************************************************)
EXTENDS Integers, Sequences, FiniteSets, TLC

VARIABLES fs, obj, prev, cl, last, hist

vars == <<fs, obj, prev, cl, last, hist>>

---------------------------------------------------------------------------
(* Program constants *)

DEFAULT_WORD_SIZE == 8
NUM_WORDS == 256
IMDI == -32768
_NUM_FIELD_INTS == 45
LBLREC_OFFSET == 14
LBREL_OFFSET == 21
LBEGIN_OFFSET == 28
LBNREC_OFFSET == 29
_CRAY32_SIZE == 4
_WGDOS_SIZE == 4
_WORDS_PER_SECTOR == 2048

(* Offsets of the named LOOKUP words the codec uses through the header     *)
(* release tables of iris.fileformats.pp (_header_defn): lbyr, lbhem,      *)
(* lbrow, lbnpt, lbpack, lbuser1 and, among the reals, bmdi.               *)
LBYR_OFFSET == 0
LBHEM_OFFSET == 16
LBROW_OFFSET == 17
LBNPT_OFFSET == 18
LBPACK_OFFSET == 20
LBUSER1_OFFSET == 38
BMDI_OFFSET == 62

WordSizes == {4, DEFAULT_WORD_SIZE}

(* The integer words of a LOOKUP column that the model keeps. *)
IntIdx == {LBYR_OFFSET, LBLREC_OFFSET, LBHEM_OFFSET, LBROW_OFFSET, LBNPT_OFFSET,
           LBPACK_OFFSET, LBREL_OFFSET, LBEGIN_OFFSET, LBNREC_OFFSET,
           LBUSER1_OFFSET}

(* The real words of a LOOKUP column that the model keeps, as indices into *)
(* the real segment.                                                       *)
RealIdx == {0, BMDI_OFFSET - _NUM_FIELD_INTS}

(* FieldsFileVariant._COMPONENTS: the constants blocks, in their declared  *)
(* order, each with the kind of its elements.                              *)
_COMPONENTS == << <<"integer_constants", "i">>,
                  <<"real_constants", "f">>,
                  <<"level_dependent_constants", "f">>,
                  <<"row_dependent_constants", "f">>,
                  <<"column_dependent_constants", "f">>,
                  <<"fields_of_constants", "f">>,
                  <<"extra_constants", "f">>,
                  <<"temp_historyfile", "i">>,
                  <<"compressed_field_index1", "i">>,
                  <<"compressed_field_index2", "i">>,
                  <<"compressed_field_index3", "i">> >>

CompNames == {_COMPONENTS[i][1] : i \in DOMAIN _COMPONENTS}

PointerNames == CompNames \cup {"lookup", "data"}

(* The number of shape words the fixed length header holds for a pointer   *)
(* (iris.fileformats.ff FF_HEADER, with the data pointer cut to one).      *)
ShapeSlots(name) ==
    IF name \in {"level_dependent_constants", "row_dependent_constants",
                 "column_dependent_constants", "fields_of_constants", "lookup"}
    THEN 2 ELSE 1

---------------------------------------------------------------------------
(* Values, words and arrays *)

Max(a, b) == IF a >= b THEN a ELSE b

Val(n, h) == [n |-> n, h |-> h]

Word(kind, v) == [k |-> kind, n |-> v.n, h |-> v.h]

IntWord(n) == [k |-> "i", n |-> n, h |-> 0]

ZeroWord == IntWord(0)

IsZero(w) == w.n = 0 /\ w.h = 0

(* The value read from a word through a dtype of the given kind.  A word   *)
(* written as the other kind is reinterpreted bit for bit: zero stays      *)
(* zero, anything else is marked h = -1 (no value written equals it).      *)
ValOf(w, kind) ==
    IF w.k = kind \/ IsZero(w) THEN Val(w.n, w.h) ELSE Val(w.n, -1)

(* The integer read from a word through an integer dtype. *)
IntOf(w) ==
    IF w.k = "i" \/ IsZero(w) THEN w.n ELSE 1073741824 + w.n

(* numpy's astype between the kinds: to integer truncates towards zero. *)
Convert(v, from, to) ==
    IF to = "i" /\ from = "f" /\ v.h # 0
    THEN Val(IF v.n < 0 THEN v.n + 1 ELSE v.n, 0)
    ELSE v

RECURSIVE Product(_)
Product(shape) ==
    IF shape = << >> THEN 1 ELSE Head(shape) * Product(Tail(shape))

(* An ndarray: its shape, the order of its elements in memory ("C" row     *)
(* major, "F" column major), the kind of its dtype and its elements in     *)
(* memory order.                                                           *)
Array(shape, order, kind, mem) ==
    [t |-> "array", shape |-> shape, order |-> order, kind |-> kind, mem |-> mem]

NoData == [t |-> "none"]

Size(a) == Len(a.mem)

(* The element of a 1- or 2-dimensional array at a logical index. *)
Elem(a, i, j) ==
    IF Len(a.shape) = 1 THEN a.mem[i + 1]
    ELSE IF a.order = "C" THEN a.mem[i * a.shape[2] + j + 1]
    ELSE a.mem[i + j * a.shape[1] + 1]

(* numpy's element-wise equality of two arrays of one shape. *)
ArrEq(a, b) ==
    /\ a.t = "array" /\ b.t = "array"
    /\ a.shape = b.shape
    /\ \A i \in 0..(a.shape[1] - 1) :
         \A j \in 0..((IF Len(a.shape) = 1 THEN 1 ELSE a.shape[2]) - 1) :
            Elem(a, i, j) = Elem(b, i, j)

(* normalise() of _write_new: astype to the kind, big-endian, at the file's *)
(* word size; the memory order is kept (astype's order='K').                *)
normalise(values, kind) ==
    [values EXCEPT !.kind = kind,
                   !.mem = [i \in DOMAIN values.mem |->
                              Convert(values.mem[i], values.kind, kind)]]

(* The words a write of an array puts in the file: its memory, in order. *)
WordsOf(a) == [i \in DOMAIN a.mem |-> Word(a.kind, a.mem[i])]

---------------------------------------------------------------------------
(* The fixed length header *)

Header(dataset_type, start, shape) ==
    [dataset_type |-> dataset_type, start |-> start, shape |-> shape]

Fill(name, v) == [i \in 1..ShapeSlots(name) |-> v]

(* FixedLengthHeader.empty: every word IMDI. *)
EmptyHeader ==
    Header(IMDI, [p \in PointerNames |-> IMDI], [p \in PointerNames |-> Fill(p, IMDI)])

(* The header read from 256 words that were never written. *)
ZeroHeader ==
    Header(0, [p \in PointerNames |-> 0], [p \in PointerNames |-> Fill(p, 0)])

---------------------------------------------------------------------------
(* Files *)

Missing == [t |-> "missing"]

(* tell is the position, in bytes, of the handle a file is read through;   *)
(* it is 0 for a file as it lies on disk.                                  *)
File(ws, len, hdr, body) ==
    [t |-> "file", ws |-> ws, len |-> len, hdr |-> hdr, body |-> body,
     tell |-> 0]

(* The file f as seen through an open handle at position tell. *)
Source(f, tell) == [f EXCEPT !.tell = tell]

EmptyMap == [o \in {} |-> ZeroWord]

(* open(filename, 'wb'): the file exists afterwards and is empty. *)
EmptyFile(ws) == File(ws, 0, ZeroHeader, EmptyMap)

WordAt(f, o) == IF o \in DOMAIN f.body THEN f.body[o] ELSE ZeroWord

(* f.write of a sequence of words at word offset off. *)
WriteWords(f, off, words) ==
    IF Len(words) = 0 THEN f
    ELSE [f EXCEPT
            !.body = [o \in (DOMAIN f.body) \cup (off..(off + Len(words) - 1)) |->
                        IF o >= off /\ o < off + Len(words)
                        THEN words[o - off + 1] ELSE f.body[o]],
            !.len = Max(f.len, off + Len(words))]

(* f.write of the kept words of a run of width words at word offset off:   *)
(* kept maps offsets within the run to words; the other words of the run   *)
(* are overwritten too, and are not kept.                                  *)
WriteSparse(f, off, width, kept) ==
    IF width = 0 THEN f
    ELSE [f EXCEPT
            !.body = [o \in ((DOMAIN f.body) \ (off..(off + width - 1)))
                              \cup {off + i : i \in DOMAIN kept} |->
                        IF o >= off /\ o < off + width
                        THEN kept[o - off] ELSE f.body[o]],
            !.len = Max(f.len, off + width)]

(* f.write of n zero words at word offset off. *)
WriteZeros(f, off, n) ==
    IF n = 0 THEN f
    ELSE [f EXCEPT
            !.body = [o \in (DOMAIN f.body) \ (off..(off + n - 1)) |-> f.body[o]],
            !.len = Max(f.len, off + n)]

(* f.write of the fixed length header at the start of the file. *)
WriteHeader(f, hdr) ==
    [f EXCEPT !.hdr = hdr, !.len = Max(f.len, NUM_WORDS)]

(* np.fromfile(source, count=count) at word offset off: the words up to    *)
(* the end of the file, at most count of them.                             *)
ReadWords(f, off, count) ==
    LET n == IF off >= f.len THEN 0
             ELSE IF off + count > f.len THEN f.len - off ELSE count
    IN  [i \in 1..Max(n, 0) |-> WordAt(f, off + i - 1)]

---------------------------------------------------------------------------
(* Field and the data providers *)

(* A Field: its class (Field2, Field3 or the unversioned Field), the       *)
(* lengths of its integer and real headers, the kept words of both, and    *)
(* its data provider: None, an ndarray, or a provider bound to a byte      *)
(* offset of the file's source.                                            *)
Field(cls, nints, nreals, ints, reals, provider) ==
    [cls |-> cls, nints |-> nints, nreals |-> nreals, ints |-> ints,
     reals |-> reals, provider |-> provider]

Provider(class, offset, word_size) ==
    [t |-> class, offset |-> offset, word_size |-> word_size]

(* Field2 and Field3 have the named properties of their header release     *)
(* (lbpack, lbrow, lbegin, ...); the unversioned Field has none.           *)
HasProperties(field) == field.cls \in {"Field2", "Field3"}

num_values(field) == field.nints + field.nreals

_FIELD_CLASSES == (2 :> "Field2") @@ (3 :> "Field3") @@ (-99 :> "Field")

_DATA_DTYPES ==
    [w \in {4, 8} |-> (1 :> "f") @@ (2 :> "i") @@ (3 :> "i")]

(* The outcome of a call: its status ("ok" or the error raised), the       *)
(* array or None it returned, whether the unpack function was invoked and  *)
(* the number of bytes it asked the source for.                            *)
Outcome(status, data, unpack, nbytes) ==
    [status |-> status, data |-> data, unpack |-> unpack, nbytes |-> nbytes]

Raise(status) == Outcome(status, NoData, FALSE, 0)

(* One 4-byte half of an 8-byte big-endian word, read through a dtype. *)
HalfOf(w, half, kind) ==
    IF IsZero(w) THEN Val(0, 0)
    ELSE IF w.k = "i" /\ kind = "i"
         THEN IF half = 1 THEN Val(w.n, 0)
              ELSE Val(IF w.n < 0 THEN -1 ELSE 0, 0)
         ELSE Val(w.n, -1)

(* np.fromfile(source, dtype, count) after source.seek(offset): count      *)
(* elements of the given width in bytes, or fewer at the end of the file.  *)
FromFile(f, offset, kind, width, count) ==
    LET off == offset \div f.ws
    IN  IF width = f.ws
        THEN LET words == ReadWords(f, off, count)
             IN  [i \in DOMAIN words |-> ValOf(words[i], kind)]
        ELSE LET per == f.ws \div width
                 avail == IF off >= f.len THEN 0 ELSE (f.len - off) * per
                 n == IF count > avail THEN avail ELSE count
             IN  [i \in 1..Max(n, 0) |->
                    HalfOf(WordAt(f, off + ((i - 1) \div per)), (i - 1) % per, kind)]

(* A provider that reads on from wherever the handle was left. *)
NoSeek(f, offset) == f.tell

(* self.source.seek(self.offset): the position the handle is left at. *)
Seek(f, offset) == offset

(* The external unpack function of iris.fileformats.pp_packing: an array   *)
(* of rows x cols floating point values; its contents are not modelled.    *)
wgdos_unpack(nbytes, rows, cols, bmdi) ==
    Array(<<rows, cols>>, "C", "f", [i \in 1..(rows * cols) |-> bmdi])

(* _NormalDataProvider.read_data *)
NormalReadData(p, field, f) ==
    IF ~HasProperties(field) THEN Raise("AttributeError")
    ELSE
    LET lbpack == field.ints[LBPACK_OFFSET]
        format == (lbpack \div 1000) % 10
        comp == lbpack % 1000
    IN  IF format \notin {0, 2, 3} THEN Raise("Unsupported number format")
        ELSE IF comp = 0 \/ comp = 2
        THEN LET word_size == IF comp = 0 THEN p.word_size ELSE _CRAY32_SIZE
                 lbuser1 == field.ints[LBUSER1_OFFSET]
             IN  IF lbuser1 \notin DOMAIN _DATA_DTYPES[word_size]
                 THEN Raise("KeyError")
                 ELSE LET dtype == _DATA_DTYPES[word_size][lbuser1]
                          rows == field.ints[LBROW_OFFSET]
                          cols == field.ints[LBNPT_OFFSET]
                          data == FromFile(f, Seek(f, p.offset), dtype, word_size, rows * cols)
                      IN  IF Len(data) # rows * cols
                          THEN Raise("reshape ValueError")
                          ELSE Outcome("ok", Array(<<rows, cols>>, "C", dtype, data),
                                       FALSE, rows * cols * word_size)
        ELSE IF comp = 1
        THEN LET data_size == ((field.ints[LBNREC_OFFSET] * 2) - 1) * _WGDOS_SIZE
             IN  Outcome("ok",
                         wgdos_unpack(data_size, field.ints[LBROW_OFFSET],
                                      field.ints[LBNPT_OFFSET],
                                      field.reals[BMDI_OFFSET - _NUM_FIELD_INTS]),
                         TRUE, data_size)
        ELSE Raise("Unsupported lbpack")

(* A boundary provider that decodes as the normal one does. *)
BoundaryAsNormal(p, field, f) == NormalReadData(p, field, f)

(* _BoundaryDataProvider.read_data *)
BoundaryReadData(p, field, f) ==
    IF ~HasProperties(field) THEN Raise("AttributeError")
    ELSE
    LET lbpack == field.ints[LBPACK_OFFSET]
        format == (lbpack \div 1000) % 10
        comp == lbpack % 1000
    IN  IF format \notin {0, 2, 3} THEN Raise("Unsupported number format")
        ELSE IF comp = 0 \/ comp = 2
        THEN LET word_size == IF comp = 0 THEN p.word_size ELSE _CRAY32_SIZE
                 lbuser1 == field.ints[LBUSER1_OFFSET]
             IN  IF lbuser1 \notin DOMAIN _DATA_DTYPES[word_size]
                 THEN Raise("KeyError")
                 ELSE LET dtype == _DATA_DTYPES[word_size][lbuser1]
                          count == field.ints[LBLREC_OFFSET]
                          rows == field.ints[LBHEM_OFFSET] - 100
                          data == FromFile(f, Seek(f, p.offset), dtype, word_size, count)
                      IN  IF rows <= 0 \/ Len(data) % rows # 0
                          THEN Raise("reshape ValueError")
                          ELSE Outcome("ok",
                                       Array(<<rows, Len(data) \div rows>>, "C",
                                             dtype, data),
                                       FALSE, count * word_size)
        ELSE Raise("Unsupported lbpack")

(* The position a provider's read_data leaves the handle at: where it     *)
(* sought to, and past whatever np.fromfile or source.read then took.      *)
TellAfter(p, field, f) ==
    LET at == Seek(f, p.offset)
    IN  IF ~HasProperties(field) THEN at
        ELSE
        LET lbpack == field.ints[LBPACK_OFFSET]
            format == (lbpack \div 1000) % 10
            comp == lbpack % 1000
        IN  IF format \notin {0, 2, 3} THEN at
            ELSE IF comp = 0 \/ comp = 2
            THEN LET word_size == IF comp = 0 THEN p.word_size ELSE _CRAY32_SIZE
                     lbuser1 == field.ints[LBUSER1_OFFSET]
                     count == IF p.t = "boundary"
                              THEN field.ints[LBLREC_OFFSET]
                              ELSE field.ints[LBROW_OFFSET] * field.ints[LBNPT_OFFSET]
                 IN  IF lbuser1 \notin DOMAIN _DATA_DTYPES[word_size] THEN at
                     ELSE at + Len(FromFile(f, at, _DATA_DTYPES[word_size][lbuser1],
                                            word_size, count)) * word_size
            ELSE IF comp = 1 /\ p.t = "normal"
            THEN LET data_size == ((field.ints[LBNREC_OFFSET] * 2) - 1) * _WGDOS_SIZE
                     end == f.len * f.ws
                 IN  Max(at, IF at + data_size <= end THEN at + data_size ELSE end)
            ELSE at

(* Where Field.read_data leaves the open handle of the file. *)
tell(field, f) ==
    IF field.provider.t \in {"array", "none"} THEN f.tell
    ELSE TellAfter(field.provider, field, f)

(* Field.read_data, with the file the providers read and whether its       *)
(* handle is still open.                                                   *)
read_data(field, f, isOpen) ==
    IF field.provider.t = "array" THEN Outcome("ok", field.provider, FALSE, 0)
    ELSE IF field.provider.t = "none" THEN Outcome("ok", NoData, FALSE, 0)
    ELSE IF ~isOpen THEN Raise("closed file")
    ELSE IF field.provider.t = "boundary"
         THEN BoundaryReadData(field.provider, field, f)
         ELSE NormalReadData(field.provider, field, f)

---------------------------------------------------------------------------
(* FieldsFileVariant: opening *)

READ_MODE == "READ"
UPDATE_MODE == "UPDATE"
CREATE_MODE == "CREATE"

_MODE_MAPPING ==
    (READ_MODE :> "rb") @@ (UPDATE_MODE :> "r+b") @@ (CREATE_MODE :> "wb")

(* FixedLengthHeader.from_file and __init__: 256 words or a ValueError. *)
from_file(f) ==
    IF f.len < NUM_WORDS
    THEN [status |-> "Incorrect number of words", header |-> EmptyHeader]
    ELSE [status |-> "ok", header |-> f.hdr]

(* constants(name, dtype) of __init__. *)
constants(header, f, name, kind) ==
    LET start == header.start[name]
    IN  IF start > 0
        THEN LET shape == header.shape[name]
                 words == ReadWords(f, start - 1, Product(shape))
                 values == [i \in DOMAIN words |-> ValOf(words[i], kind)]
             IN  IF Len(shape) > 1
                 THEN IF Len(values) # Product(shape)
                      THEN Raise("reshape ValueError")
                      ELSE Outcome("ok", Array(shape, "F", kind, values), FALSE, 0)
                 ELSE Outcome("ok", Array(<<Len(values)>>, "C", kind, values),
                              FALSE, 0)
        ELSE Outcome("ok", NoData, FALSE, 0)

Min(a, b) == IF a <= b THEN a ELSE b

(* raw_headers[:_NUM_FIELD_INTS] of the LOOKUP column at word offset base. *)
ColumnInts(f, base, width) ==
    [i \in {x \in IntIdx : x < Min(width, _NUM_FIELD_INTS)} |->
        IntOf(WordAt(f, base + i))]

(* raw_headers[_NUM_FIELD_INTS:].view(real_dtype) *)
ColumnReals(f, base, width) ==
    [j \in {x \in RealIdx : x < width - _NUM_FIELD_INTS} |->
        ValOf(WordAt(f, base + _NUM_FIELD_INTS + j), "f")]

(* A provider for every column, whatever its first word. *)
ProviderForAll(ints, data_class, offset, word_size) ==
    Provider(data_class, offset, word_size)

(* The data provider __init__ gives the field of a column: None when the   *)
(* column's first word is -99.                                             *)
DataProvider(ints, data_class, offset, word_size) ==
    IF ints[LBYR_OFFSET] = -99 THEN NoData
    ELSE Provider(data_class, offset, word_size)

(* The loops of __init__ over lookup.T, from column k (0-based) on:        *)
(* relative says which loop, running_offset is the first loop's state.     *)
(* The result is the fields made, or a KeyError from _FIELD_CLASSES.       *)
RECURSIVE MakeFields(_, _, _, _, _, _, _)
MakeFields(f, header, word_size, data_class, relative, k, running_offset) ==
    LET width == header.shape["lookup"][1]
        count == header.shape["lookup"][2]
        base == (header.start["lookup"] - 1) + k * width
        ints == ColumnInts(f, base, width)
        offset == IF relative THEN running_offset
                  ELSE ints[LBEGIN_OFFSET] * word_size
        data_provider == DataProvider(ints, data_class, offset, word_size)
    IN  IF k >= count THEN [status |-> "ok", fields |-> << >>]
        ELSE IF ints[LBREL_OFFSET] \notin DOMAIN _FIELD_CLASSES
        THEN [status |-> "KeyError", fields |-> << >>]
        ELSE LET klass == _FIELD_CLASSES[ints[LBREL_OFFSET]]
                 field == Field(klass, Min(width, _NUM_FIELD_INTS),
                                Max(width - _NUM_FIELD_INTS, 0), ints,
                                ColumnReals(f, base, width), data_provider)
                 rest == MakeFields(f, header, word_size, data_class, relative,
                                    k + 1,
                                    running_offset +
                                        ints[LBLREC_OFFSET] * word_size)
             IN  [status |-> rest.status,
                  fields |-> IF rest.status = "ok"
                             THEN <<field>> \o rest.fields ELSE << >>]

(* The components read by __init__, in order, up to the first failure. *)
RECURSIVE ReadComponents(_, _, _)
ReadComponents(header, f, i) ==
    IF i > Len(_COMPONENTS) THEN [status |-> "ok", comps |-> [n \in {} |-> NoData]]
    ELSE LET r == constants(header, f, _COMPONENTS[i][1], _COMPONENTS[i][2])
         IN  IF r.status # "ok" THEN [status |-> r.status, comps |-> [n \in {} |-> NoData]]
             ELSE LET rest == ReadComponents(header, f, i + 1)
                  IN  [status |-> rest.status,
                       comps |-> (_COMPONENTS[i][1] :> r.data) @@ rest.comps]

NoComponents == [n \in CompNames |-> NoData]

(* Where the reads of constants() leave the handle: each named block with  *)
(* a start is sought and read in turn, up to the first that fails, from a  *)
(* handle at position at.                                                  *)
RECURSIVE TellAfterConstants(_, _, _, _, _)
TellAfterConstants(header, f, word_size, names, at) ==
    IF names = << >> THEN at
    ELSE LET start == header.start[Head(names)]
             shape == header.shape[Head(names)]
             n == Len(ReadWords(f, start - 1, Product(shape)))
             here == ((start - 1) + n) * word_size
         IN  IF start <= 0
             THEN TellAfterConstants(header, f, word_size, Tail(names), at)
             ELSE IF Len(shape) > 1 /\ n # Product(shape) THEN here
             ELSE TellAfterConstants(header, f, word_size, Tail(names), here)

(* Where __init__ leaves the handle it opened: past the fixed length       *)
(* header, the components and the LOOKUP it read, and nowhere in the data. *)
InitTell(f, mode, word_size) ==
    IF mode = CREATE_MODE THEN 0
    ELSE IF f.len < NUM_WORDS THEN f.len * word_size
    ELSE TellAfterConstants(f.hdr, f, word_size,
                            [i \in 1..Len(_COMPONENTS) |-> _COMPONENTS[i][1]]
                                \o <<"lookup">>,
                            NUM_WORDS * word_size)

(* FieldsFileVariant.__init__ after the source was opened: the status and  *)
(* the attributes of the new object.  f is the file the handle reads.      *)
FieldsFileVariant(f, mode, word_size) ==
    LET hd == IF mode = CREATE_MODE
              THEN [status |-> "ok", header |-> EmptyHeader]
              ELSE from_file(f)
        header == hd.header
        cs == ReadComponents(header, f, 1)
        data_class == IF header.dataset_type = 5 THEN "boundary" ELSE "normal"
        lookup == constants(header, f, "lookup", "i")
        width == header.shape["lookup"][1]
        count == header.shape["lookup"][2]
        fail(status) == [status |-> status, header |-> header,
                         comps |-> NoComponents, fields |-> << >>]
    IN  IF hd.status # "ok" THEN fail(hd.status)
        ELSE IF cs.status # "ok" THEN fail(cs.status)
        ELSE IF lookup.status # "ok" THEN fail(lookup.status)
        ELSE IF lookup.data.t = "none"
        THEN [status |-> "ok", header |-> header, comps |-> cs.comps,
              fields |-> << >>]
        ELSE IF width <= LBNREC_OFFSET \/ count < 1 THEN fail("IndexError")
        ELSE LET relative ==
                    IntOf(WordAt(f, (header.start["lookup"] - 1) + LBNREC_OFFSET)) = 0
                 made == MakeFields(f, header, word_size, data_class, relative, 0,
                                    (header.start["data"] - 1) * word_size)
             IN  IF made.status # "ok" THEN fail(made.status)
                 ELSE [status |-> "ok", header |-> header, comps |-> cs.comps,
                       fields |-> made.fields]

---------------------------------------------------------------------------
(* FieldsFileVariant: laying out and writing *)

(* Python's a % -m for m > 0: in (-m, 0]. *)
PyModNeg(a, m) == -((-a) % m)

(* The loop of _prepare_fixed_length_header over _COMPONENTS from the i-th *)
(* on: the header and the word number after it.                            *)
RECURSIVE PrepareComponents(_, _, _, _)
PrepareComponents(comps, header, word_number, i) ==
    IF i > Len(_COMPONENTS)
    THEN [header |-> header, word_number |-> word_number]
    ELSE LET name == _COMPONENTS[i][1]
             value == comps[name]
         IN  IF value.t = "none"
             THEN PrepareComponents(comps,
                     [header EXCEPT !.start[name] = IMDI,
                                    !.shape[name] = Fill(name, IMDI)],
                     word_number, i + 1)
             ELSE PrepareComponents(comps,
                     [header EXCEPT !.start[name] = word_number,
                                    !.shape[name] = value.shape],
                     word_number + Size(value), i + 1)

(* The sector rounding of _prepare_fixed_length_header. *)
DataStart(word_number) ==
    LET offset == word_number - 1
    IN  (offset - PyModNeg(offset, _WORDS_PER_SECTOR)) + 1

(* A layout that accepts any header lengths. *)
AnyLengths(fields) == Cardinality({num_values(fields[k]) : k \in DOMAIN fields}) >= 1

(* Whether the records' header lengths let the LOOKUP be laid out. *)
ConsistentLengths(fields) ==
    Cardinality({num_values(fields[k]) : k \in DOMAIN fields}) = 1

(* _prepare_fixed_length_header: the status and the header as it leaves it. *)
_prepare_fixed_length_header(comps, fields, header0) ==
    LET r == PrepareComponents(comps, header0, NUM_WORDS + 1, 1)
        header == r.header
        word_number == r.word_number
    IN  IF fields # << >>
        THEN LET h1 == [header EXCEPT !.start["lookup"] = word_number]
             IN  IF ~ConsistentLengths(fields)
                 THEN [status |-> "Inconsistent header lengths", header |-> h1]
                 ELSE [status |-> "ok",
                       header |-> [h1 EXCEPT
                          !.shape["lookup"] = <<num_values(fields[1]), Len(fields)>>,
                          !.start["data"] = DataStart(word_number)]]
        ELSE [status |-> "ok",
              header |-> [header EXCEPT
                 !.start["lookup"] = IMDI,
                 !.shape["lookup"] = Fill("lookup", IMDI),
                 !.start["data"] = IMDI,
                 !.shape["data"] = Fill("data", IMDI)]]

(* The writes of _write_new for the components from the i-th on, at byte   *)
(* position pos of file f: the file and the position after them.           *)
RECURSIVE WriteComponents(_, _, _, _)
WriteComponents(comps, f, pos, i) ==
    IF i > Len(_COMPONENTS) THEN [f |-> f, pos |-> pos]
    ELSE LET values == comps[_COMPONENTS[i][1]]
         IN  IF values.t = "none" THEN WriteComponents(comps, f, pos, i + 1)
             ELSE LET words == WordsOf(normalise(values, _COMPONENTS[i][2]))
                  IN  WriteComponents(comps, WriteWords(f, pos \div f.ws, words),
                                      pos + Len(words) * f.ws, i + 1)

(* size -= size % -_WORDS_PER_SECTOR *)
SectorRound(size) == size - PyModNeg(size, _WORDS_PER_SECTOR)

(* The on-disk kind of a field's payload. *)
PayloadKind(lbuser1, data) ==
    LET kinds == (1 :> "f") @@ (2 :> "i") @@ (3 :> "i")
    IN  IF lbuser1 \in DOMAIN kinds THEN kinds[lbuser1] ELSE data.kind

(* A padding of as many bytes as the payload overran the sector by. *)
PaddingByOverrun(pos, word_size, pad_fields) ==
    LET sector_size == _WORDS_PER_SECTOR * word_size
        overrun == pos % sector_size
    IN  IF pad_fields /\ overrun # 0 THEN overrun ELSE 0

(* The padding of a payload in _write_new: the number of zero bytes        *)
(* written at byte position pos.                                           *)
Padding(pos, word_size, pad_fields) ==
    LET sector_size == _WORDS_PER_SECTOR * word_size
        overrun == pos % sector_size
    IN  IF pad_fields /\ overrun # 0 THEN sector_size - overrun ELSE 0

(* One pass of the loop over self.fields in _write_new, for a field whose  *)
(* data was read: the field, the file and the position after it, or the    *)
(* AttributeError of a field without the lbuser1 property.                 *)
WriteField(field, data, f, pos, pad_fields) ==
    LET word_size == f.ws
        patched == IF HasProperties(field)
                   THEN [field EXCEPT
                           !.ints[LBEGIN_OFFSET] = pos \div word_size,
                           !.ints[LBNREC_OFFSET] = SectorRound(Size(data))]
                   ELSE field
    IN  IF ~HasProperties(field)
        THEN [status |-> "AttributeError", field |-> patched, f |-> f, pos |-> pos]
        ELSE LET kind == PayloadKind(field.ints[LBUSER1_OFFSET], data)
                 words == WordsOf(normalise(data, kind))
                 f1 == WriteWords(f, pos \div word_size, words)
                 pos1 == pos + Len(words) * word_size
                 pad == Padding(pos1, word_size, pad_fields)
             IN  [status |-> "ok", field |-> patched,
                  f |-> WriteZeros(f1, pos1 \div word_size, pad \div word_size),
                  pos |-> pos1 + pad]

(* The kept words of a field's column, as _write_new writes them. *)
ColumnWords(field) ==
    [o \in (DOMAIN field.ints) \cup {field.nints + j : j \in DOMAIN field.reals} |->
        IF o < field.nints
        THEN IntWord(field.ints[o])
        ELSE Word("f", field.reals[o - field.nints])]

(* The loop of _write_new that writes the LOOKUP, from the k-th field on. *)
RECURSIVE WriteLookup(_, _, _, _)
WriteLookup(fields, f, pos, k) ==
    IF k > Len(fields) THEN [f |-> f, pos |-> pos]
    ELSE WriteLookup(fields,
                     WriteSparse(f, pos \div f.ws, num_values(fields[k]),
                                 ColumnWords(fields[k])),
                     pos + num_values(fields[k]) * f.ws, k + 1)

(* header.data_shape as _write_new leaves it. *)
DataShape(header, pos, word_size) ==
    IF header.dataset_type = 5 THEN <<0>>
    ELSE <<(pos \div word_size) - header.start["data"] + 1>>

---------------------------------------------------------------------------
(* Bounds and inputs of the model *)

MaxOpens == 2
MaxCloses == 2
MaxEdits == 2
MaxFields == 2

(* The modes a caller passes: the three of _MODE_MAPPING and one other. *)
Modes == {READ_MODE, UPDATE_MODE, CREATE_MODE, "APPEND"}

(* The kept integer words of a column. *)
Ints(lbyr, lblrec, lbhem, lbrow, lbnpt, lbpack, lbrel, lbegin, lbnrec, lbuser1) ==
    (LBYR_OFFSET :> lbyr) @@ (LBLREC_OFFSET :> lblrec) @@ (LBHEM_OFFSET :> lbhem)
    @@ (LBROW_OFFSET :> lbrow) @@ (LBNPT_OFFSET :> lbnpt)
    @@ (LBPACK_OFFSET :> lbpack) @@ (LBREL_OFFSET :> lbrel)
    @@ (LBEGIN_OFFSET :> lbegin) @@ (LBNREC_OFFSET :> lbnrec)
    @@ (LBUSER1_OFFSET :> lbuser1)

(* The kept real words of a column of nreals reals. *)
Reals(nreals) ==
    [j \in {x \in RealIdx : x < nreals} |-> IF j = 0 THEN Val(2, 1) ELSE Val(-1, 0)]

(* A padding column: every word -99. *)
PaddingInts == Ints(-99, -99, -99, -99, -99, -99, -99, -99, -99, -99)

(* The fields a caller appends to self.fields: built with Field2, Field3   *)
(* or Field from header words and an ndarray (or None).                    *)
FieldTemplates ==
    { Field("Field2", 45, 19, Ints(2014, 2, 0, 1, 2, 0, 2, IMDI, IMDI, 1), Reals(19),
            Array(<<1, 2>>, "C", "f", <<Val(1, 1), Val(2, 0)>>)),
      Field("Field3", 45, 18, Ints(2015, 2, 0, 2, 1, 0, 3, IMDI, IMDI, 2), Reals(18),
            Array(<<2, 1>>, "C", "i", <<Val(7, 0), Val(8, 0)>>)),
      Field("Field", 45, 19, PaddingInts, Reals(19), NoData),
      Field("Field2", 45, 19, Ints(-99, 1, 0, 1, 1, 0, 2, IMDI, IMDI, 2), Reals(19),
            Array(<<1, 1>>, "C", "i", <<Val(6, 0)>>)),
      Field("Field", 45, 19, Ints(2017, 1, 0, 1, 1, 0, -99, IMDI, IMDI, 2), Reals(19),
            Array(<<1, 1>>, "C", "i", <<Val(4, 0)>>)) }

(* The arrays a caller assigns to a component: of the dimensions its       *)
(* header pointer has words for, in either memory order.                   *)
ComponentValues(name) ==
    IF ShapeSlots(name) = 1
    THEN { Array(<<2>>, "C", "i", <<Val(3, 0), Val(4, 0)>>) }
    ELSE { Array(<<2, 2>>, o, "f", <<Val(1, 0), Val(2, 0), Val(3, 0), Val(4, 0)>>)
              : o \in {"C", "F"} }

(* The components a caller assigns in the model: a one-dimensional and a   *)
(* two-dimensional one.                                                    *)
AssignedComponents == {"integer_constants", "level_dependent_constants"}

(* The dataset types a caller sets: one of the unpadded (1, 2), the        *)
(* boundary type, and the model's files hold 3.                            *)
DatasetTypes == {1, 5}

---------------------------------------------------------------------------
(* Files found on disk at the start *)

(* A file of word size ws with the given dataset type, a LOOKUP of the     *)
(* columns cols (fields, for their header words) at word 257, and payload  *)
(* words from the word offset of each entry of payloads.                   *)
RECURSIVE WritePayloads(_, _)
WritePayloads(f, payloads) ==
    IF payloads = << >> THEN f
    ELSE WritePayloads(WriteWords(f, payloads[1][1], payloads[1][2]), Tail(payloads))

DiskFile(ws, dataset_type, cols, payloads) ==
    LET header == [EmptyHeader EXCEPT
                      !.dataset_type = dataset_type,
                      !.start["lookup"] = NUM_WORDS + 1,
                      !.shape["lookup"] = <<num_values(cols[1]), Len(cols)>>,
                      !.start["data"] = _WORDS_PER_SECTOR + 1,
                      !.shape["data"] = <<_WORDS_PER_SECTOR>>]
        f0 == WriteHeader(EmptyFile(ws), header)
        f1 == WriteLookup(cols, f0, NUM_WORDS * ws, 1).f
    IN  WriteZeros(WritePayloads(f1, payloads), 2 * _WORDS_PER_SECTOR - 1, 1)

Col(ints) == Field("Field", 45, 19, ints, Reals(19), NoData)

(* A model dump: relative addressing (record 0 has lbnrec = 0), two        *)
(* records of two words each and a padding column.                         *)
DumpFile ==
    DiskFile(8, 3,
             << Col(Ints(2001, 2, 0, 1, 2, 0, 2, 0, 0, 2)),
                Col(Ints(2002, 2, 0, 2, 1, 0, 3, 0, 0, 2)),
                Col(PaddingInts) >>,
             << <<_WORDS_PER_SECTOR, <<IntWord(11), IntWord(12), IntWord(13),
                                       IntWord(14)>> >> >>)

(* A fields file: direct addressing, a padding column first. *)
DirectFile ==
    DiskFile(8, 3,
             << Col(PaddingInts),
                Col(Ints(2003, 2, 0, 1, 2, 0, 2, _WORDS_PER_SECTOR, 2048, 1)) >>,
             << <<_WORDS_PER_SECTOR, <<Word("f", Val(1, 1)), Word("f", Val(2, 0))>> >> >>)

(* A lateral boundary file: dataset type 5. *)
BoundaryFile ==
    DiskFile(8, 5,
             << Col(Ints(2004, 2, 101, 0, 0, 0, 2, _WORDS_PER_SECTOR, 2048, 2)) >>,
             << <<_WORDS_PER_SECTOR, <<IntWord(21), IntWord(22)>> >> >>)

(* Files whose one column holds the given release number and packing code. *)
ReleaseFile(lbrel, lbpack) ==
    DiskFile(8, 3,
             << Col(Ints(2005, 1, 0, 1, 1, lbpack, lbrel, _WORDS_PER_SECTOR, 1, 2)) >>,
             << <<_WORDS_PER_SECTOR, <<IntWord(31)>> >> >>)

(* A file shorter than the fixed length header. *)
ShortFile == File(8, 10, ZeroHeader, EmptyMap)

InitialFiles ==
    { Missing, ShortFile, DumpFile, DirectFile, BoundaryFile }
    \cup { ReleaseFile(r, 0) : r \in {-99, 0, 1, 4} }

---------------------------------------------------------------------------
(* The state *)

(* No FieldsFileVariant yet, or none left after an open that raised        *)
(* before it held a handle.                                                *)
NoObject ==
    [t |-> "none", mode |-> "none", word_size |-> DEFAULT_WORD_SIZE,
     isOpen |-> FALSE, inited |-> FALSE, header |-> EmptyHeader,
     comps |-> NoComponents, fields |-> << >>, tell |-> 0,
     reopened |-> FALSE]

(* The last call and how it ended. *)
Last(op, status) ==
    [op |-> op, status |-> status, k |-> 0, out |-> Raise(status)]

Idle == [pc |-> "idle", tmp |-> 0, pos |-> 0, k |-> 0, err |-> "ok"]

Init ==
    /\ \E f \in InitialFiles : fs = [orig |-> f, temps |-> << >>]
    /\ obj = NoObject
    /\ prev = NoObject
    /\ cl = Idle
    /\ last = Last("none", "ok")
    /\ hist = [opens |-> 0, closes |-> 0, writes |-> 0, edits |-> 0,
               wrote |-> FALSE, raised |-> FALSE, atClose |-> Missing,
               written |-> Missing]

(* FieldsFileVariant(filename, mode, word_size): the mode check, open()    *)
(* and the rest of __init__.  A caller passes the word size of the file.   *)
(* A run of the model holds one session that may write (UPDATE or CREATE); *)
(* the opens before and after it only read.                                *)
Open(mode, word_size) ==
    /\ cl.pc = "idle"
    /\ ~obj.isOpen
    /\ hist.opens < MaxOpens
    /\ mode \in {UPDATE_MODE, CREATE_MODE} => ~hist.wrote
    /\ (mode \in {READ_MODE, UPDATE_MODE} /\ fs.orig.t = "file")
          => word_size = fs.orig.ws
    /\ hist' = [hist EXCEPT !.opens = @ + 1, !.closes = 0, !.writes = 0,
                            !.atClose = Missing, !.written = Missing,
                            !.raised = FALSE,
                            !.wrote = @ \/ mode \in {UPDATE_MODE, CREATE_MODE}]
    /\ UNCHANGED cl
    /\ IF mode \notin DOMAIN _MODE_MAPPING
       THEN /\ last' = Last("open", "Invaild access mode")
            /\ obj' = NoObject
            /\ UNCHANGED <<fs, prev>>
       ELSE IF mode # CREATE_MODE /\ fs.orig.t # "file"
       THEN /\ last' = Last("open", "IOError")
            /\ obj' = NoObject
            /\ UNCHANGED <<fs, prev>>
       ELSE LET f == IF mode = CREATE_MODE THEN EmptyFile(word_size) ELSE fs.orig
                r == FieldsFileVariant(f, mode, word_size)
            IN  /\ fs' = [fs EXCEPT !.orig = f]
                /\ obj' = [t |-> "ffv", mode |-> mode, word_size |-> word_size,
                           isOpen |-> TRUE, inited |-> r.status = "ok",
                           header |-> r.header, comps |-> r.comps,
                           fields |-> r.fields,
                           tell |-> InitTell(f, mode, word_size),
                           reopened |-> mode # CREATE_MODE /\ prev.t # "none"]
                /\ prev' = IF mode = CREATE_MODE THEN NoObject ELSE prev
                /\ last' = Last("open", r.status)

Editable ==
    /\ cl.pc = "idle"
    /\ obj.t = "ffv" /\ obj.inited /\ obj.isOpen
    /\ obj.mode # READ_MODE
    /\ hist.edits < MaxEdits

(* ffv.<component> = value *)
SetComponent(name, value) ==
    /\ Editable
    /\ obj.comps[name] # value
    /\ obj' = [obj EXCEPT !.comps[name] = value]
    /\ hist' = [hist EXCEPT !.edits = @ + 1]
    /\ last' = Last("edit", "ok")
    /\ UNCHANGED <<fs, prev, cl>>

(* ffv.fields.append(field) *)
AppendField(field) ==
    /\ Editable
    /\ Len(obj.fields) < MaxFields
    /\ obj' = [obj EXCEPT !.fields = Append(@, field)]
    /\ hist' = [hist EXCEPT !.edits = @ + 1]
    /\ last' = Last("edit", "ok")
    /\ UNCHANGED <<fs, prev, cl>>

(* ffv.fixed_length_header.dataset_type = d *)
SetDatasetType(d) ==
    /\ Editable
    /\ obj.header.dataset_type # d
    /\ obj' = [obj EXCEPT !.header.dataset_type = d]
    /\ hist' = [hist EXCEPT !.edits = @ + 1]
    /\ last' = Last("edit", "ok")
    /\ UNCHANGED <<fs, prev, cl>>

(* ffv.fields[k].read_data() *)
ReadData(k) ==
    /\ cl.pc = "idle"
    /\ obj.t = "ffv" /\ obj.inited
    /\ k \in DOMAIN obj.fields
    /\ LET source == Source(fs.orig, obj.tell)
           out == read_data(obj.fields[k], source, obj.isOpen)
       IN  /\ last' = [op |-> "read_data", status |-> out.status, k |-> k,
                       out |-> out]
           /\ obj' = [obj EXCEPT !.tell = IF obj.isOpen
                                           THEN tell(obj.fields[k], source)
                                           ELSE @]
           /\ hist' = [hist EXCEPT !.raised = @ \/ (obj.isOpen /\ out.status # "ok")]
    /\ UNCHANGED <<fs, prev, cl>>

---------------------------------------------------------------------------
(* FieldsFileVariant.close, step by step *)

Closing(pc) == cl.pc = pc

(* How a step of close() goes on: to the next step, or to the finally      *)
(* clause with the error it raised.                                        *)
Goto(pc) == [cl EXCEPT !.pc = pc]

Fail(err) == [cl EXCEPT !.pc = "finally", !.err = err]

TmpFile == fs.temps[cl.tmp]

(* close() is called, by the caller or by __del__. *)
Close ==
    /\ Closing("idle")
    /\ obj.t = "ffv"
    /\ hist.closes < MaxCloses
    /\ hist' = [hist EXCEPT !.closes = @ + 1,
                            !.atClose = IF obj.isOpen THEN fs.orig ELSE @]
    /\ IF ~obj.isOpen
       THEN /\ last' = Last("close", "ok")
            /\ UNCHANGED cl
       ELSE /\ last' = Last("close", "running")
            /\ cl' = [Idle EXCEPT !.pc =
                        IF obj.mode \in {UPDATE_MODE, CREATE_MODE}
                        THEN "tmp" ELSE "finally"]
    /\ UNCHANGED <<fs, obj, prev>>

(* tmp_filename = create_temp_filename(): iris.util makes the name with    *)
(* tempfile.mkstemp, which creates the file.                               *)
create_temp_filename ==
    /\ Closing("tmp")
    /\ fs' = [fs EXCEPT !.temps = Append(@, EmptyFile(obj.word_size))]
    /\ cl' = [cl EXCEPT !.pc = "prepare", !.tmp = Len(fs.temps) + 1]
    /\ UNCHANGED <<obj, prev, last, hist>>

(* self._write_new(tmp_filename) begins: _prepare_fixed_length_header.     *)
(* An object whose __init__ failed has no components and no fields: the    *)
(* first getattr raises.                                                   *)
Prepare ==
    /\ Closing("prepare")
    /\ hist' = [hist EXCEPT !.writes = @ + 1]
    /\ IF ~obj.inited
       THEN /\ cl' = Fail("AttributeError")
            /\ UNCHANGED obj
       ELSE LET r == _prepare_fixed_length_header(obj.comps, obj.fields, obj.header)
            IN  /\ obj' = [obj EXCEPT !.header = r.header]
                /\ cl' = IF r.status = "ok" THEN Goto("open") ELSE Fail(r.status)
    /\ UNCHANGED <<fs, prev, last>>

(* with open(filename, 'wb') as f: f.seek(header.NUM_WORDS * word_size) *)
OpenNew ==
    /\ Closing("open")
    /\ fs' = [fs EXCEPT !.temps[cl.tmp] = EmptyFile(obj.word_size)]
    /\ cl' = [cl EXCEPT !.pc = "components", !.pos = NUM_WORDS * obj.word_size]
    /\ UNCHANGED <<obj, prev, last, hist>>

(* The loop over _COMPONENTS, then the seek to the DATA component. *)
WriteNewComponents(io_ok) ==
    /\ Closing("components")
    /\ IF ~io_ok
       THEN /\ cl' = Fail("IOError")
            /\ UNCHANGED fs
       ELSE LET r == WriteComponents(obj.comps, TmpFile, cl.pos, 1)
            IN  /\ fs' = [fs EXCEPT !.temps[cl.tmp] = r.f]
                /\ cl' = IF obj.fields # << >>
                         THEN [cl EXCEPT !.pc = "data", !.k = 1,
                                 !.pos = (obj.header.start["data"] - 1) * obj.word_size]
                         ELSE [cl EXCEPT !.pc = "header", !.pos = r.pos]
    /\ UNCHANGED <<obj, prev, last, hist>>

(* One pass of the loop over self.fields. *)
WriteNewField(io_ok) ==
    /\ Closing("data")
    /\ cl.k <= Len(obj.fields)
    /\ LET field == obj.fields[cl.k]
           source == Source(fs.orig, obj.tell)
           out == read_data(field, source, TRUE)
           at == tell(field, source)
           pad_fields == obj.header.dataset_type \notin {1, 2}
           w == WriteField(field, out.data, TmpFile, cl.pos, pad_fields)
       IN  IF out.status # "ok"
           THEN /\ cl' = Fail(out.status)
                /\ obj' = [obj EXCEPT !.tell = at]
                /\ UNCHANGED fs
           ELSE IF out.data.t = "none"
           THEN /\ cl' = [cl EXCEPT !.k = @ + 1]
                /\ UNCHANGED <<fs, obj>>
           ELSE /\ obj' = [obj EXCEPT !.fields[cl.k] = w.field, !.tell = at]
                /\ IF w.status # "ok"
                   THEN cl' = Fail(w.status) /\ UNCHANGED fs
                   ELSE IF ~io_ok
                   THEN cl' = Fail("IOError") /\ UNCHANGED fs
                   ELSE /\ fs' = [fs EXCEPT !.temps[cl.tmp] = w.f]
                        /\ cl' = [cl EXCEPT !.k = @ + 1, !.pos = w.pos]
    /\ UNCHANGED <<prev, last, hist>>

(* After the loop: data_shape is set and the LOOKUP is written. *)
WriteNewLookup(io_ok) ==
    /\ Closing("data")
    /\ cl.k > Len(obj.fields)
    /\ LET header == [obj.header EXCEPT
                        !.shape["data"] = DataShape(obj.header, cl.pos, obj.word_size)]
           r == WriteLookup(obj.fields, TmpFile,
                            (header.start["lookup"] - 1) * obj.word_size, 1)
       IN  /\ obj' = [obj EXCEPT !.header = header]
           /\ IF ~io_ok
              THEN cl' = Fail("IOError") /\ UNCHANGED fs
              ELSE /\ fs' = [fs EXCEPT !.temps[cl.tmp] = r.f]
                   /\ cl' = [cl EXCEPT !.pc = "header", !.pos = r.pos]
    /\ UNCHANGED <<prev, last, hist>>

(* f.seek(0); f.write(header); the with block closes the new file. *)
WriteNewHeader(io_ok) ==
    /\ Closing("header")
    /\ IF ~io_ok
       THEN /\ cl' = Fail("IOError")
            /\ UNCHANGED <<fs, hist>>
       ELSE LET f == WriteHeader(TmpFile, obj.header)
            IN  /\ fs' = [fs EXCEPT !.temps[cl.tmp] = f]
                /\ hist' = [hist EXCEPT !.written = f]
                /\ cl' = [cl EXCEPT !.pc = "unlink", !.pos = NUM_WORDS * obj.word_size]
    /\ UNCHANGED <<obj, prev, last>>

(* os.unlink(self.filename) *)
Unlink(os_ok) ==
    /\ Closing("unlink")
    /\ IF os_ok
       THEN fs' = [fs EXCEPT !.orig = Missing] /\ cl' = Goto("move")
       ELSE cl' = Fail("OSError") /\ UNCHANGED fs
    /\ UNCHANGED <<obj, prev, last, hist>>

(* A file cut to its first n words: what a copy in progress has written. *)
Truncated(f, n) ==
    [f EXCEPT !.len = Min(f.len, n),
              !.body = [o \in {x \in DOMAIN f.body : x < n} |-> f.body[o]]]

(* shutil.move(tmp_filename, self.filename): os.rename within one file     *)
(* system, else a copy followed by the removal of the source.              *)
Move(how) ==
    /\ Closing("move")
    /\ CASE how = "rename" ->
              /\ fs' = [fs EXCEPT !.orig = TmpFile, !.temps[cl.tmp] = Missing]
              /\ cl' = Goto("finally")
         [] how = "copy" ->
              /\ fs' = [fs EXCEPT !.orig = Truncated(TmpFile, NUM_WORDS)]
              /\ cl' = Goto("copy")
         [] OTHER ->
              /\ cl' = Fail("OSError")
              /\ UNCHANGED fs
    /\ UNCHANGED <<obj, prev, last, hist>>

(* The copy of shutil.move ends and its source is removed. *)
MoveCopied ==
    /\ Closing("copy")
    /\ fs' = [fs EXCEPT !.orig = TmpFile, !.temps[cl.tmp] = Missing]
    /\ cl' = Goto("finally")
    /\ UNCHANGED <<obj, prev, last, hist>>

(* close() without its finally clause: an error leaves the source open. *)
CloseWithoutFinally ==
    /\ Closing("finally")
    /\ obj' = [obj EXCEPT !.isOpen = cl.err # "ok"]
    /\ last' = Last("close", cl.err)
    /\ prev' = IF cl.err = "ok" /\ obj.mode # READ_MODE THEN obj ELSE prev
    /\ cl' = Idle
    /\ UNCHANGED <<fs, hist>>

(* finally: self._source.close(); close() returns or raises. *)
Finally ==
    /\ Closing("finally")
    /\ obj' = [obj EXCEPT !.isOpen = FALSE]
    /\ last' = Last("close", cl.err)
    /\ prev' = IF cl.err = "ok" /\ obj.mode # READ_MODE THEN obj ELSE prev
    /\ cl' = Idle
    /\ UNCHANGED <<fs, hist>>

Next ==
    \/ \E mode \in Modes, word_size \in WordSizes : Open(mode, word_size)
    \/ \E name \in AssignedComponents : \E value \in ComponentValues(name) :
          SetComponent(name, value)
    \/ \E field \in FieldTemplates : AppendField(field)
    \/ \E d \in DatasetTypes : SetDatasetType(d)
    \/ \E k \in DOMAIN obj.fields : ReadData(k)
    \/ Close
    \/ create_temp_filename
    \/ Prepare
    \/ OpenNew
    \/ \E io_ok \in BOOLEAN : WriteNewComponents(io_ok)
    \/ \E io_ok \in BOOLEAN : WriteNewField(io_ok)
    \/ \E io_ok \in BOOLEAN : WriteNewLookup(io_ok)
    \/ \E io_ok \in BOOLEAN : WriteNewHeader(io_ok)
    \/ \E os_ok \in BOOLEAN : Unlink(os_ok)
    \/ \E how \in {"rename", "copy", "fail"} : Move(how)
    \/ MoveCopied
    \/ Finally

Spec == Init /\ [][Next]_vars

---------------------------------------------------------------------------
(* Properties *)

(* Equality of two results of read_data: both None, or equal arrays. *)
DataEq(a, b) == (a.t = "none" /\ b.t = "none") \/ ArrEq(a, b)

(* A file made in CREATE_MODE was closed without error (prev is the object *)
(* as that close left it) and the same path was opened again.              *)
Reopened == obj.t = "ffv" /\ obj.reopened /\ prev.mode = CREATE_MODE

(* C1: round trip.  After a file built in CREATE_MODE is closed and its    *)
(* path is opened again, the open succeeds, every start and shape pointer  *)
(* of the fixed length header has the value computed when it was written,  *)
(* every component has the same contents (an absent one stays absent),     *)
(* and the fields are as many, each with the same integer and real header  *)
(* words (lbegin and lbnrec as patched) and the same decoded data.         *)
C1_RoundTrip ==
    Reopened =>
        /\ obj.inited
        /\ obj.header.start = prev.header.start
        /\ obj.header.shape = prev.header.shape
        /\ \A n \in CompNames : DataEq(obj.comps[n], prev.comps[n])
        /\ Len(obj.fields) = Len(prev.fields)
        /\ \A k \in DOMAIN prev.fields :
              /\ k \in DOMAIN obj.fields
              /\ obj.fields[k].ints = prev.fields[k].ints
              /\ obj.fields[k].reals = prev.fields[k].reals
              /\ LET was == read_data(prev.fields[k], fs.orig, TRUE)
                     now == read_data(obj.fields[k], fs.orig, TRUE)
                 IN  now.status = "ok" /\ DataEq(now.data, was.data)

(* C1: the case that breaks the round trip with no field at all: a         *)
(* two-dimensional component assigned as a row-major array comes back      *)
(* with its elements in column-major order.                                *)
C1_Transposed ==
    /\ Reopened /\ obj.inited
    /\ prev.fields = << >>
    /\ prev.header.dataset_type = IMDI
    /\ prev.comps["level_dependent_constants"].t = "array"
    /\ prev.comps["level_dependent_constants"].order = "C"
    /\ obj.comps["level_dependent_constants"].t = "array"
    /\ obj.comps["level_dependent_constants"].shape = <<2, 2>>
    /\ Elem(prev.comps["level_dependent_constants"], 0, 1) = Val(2, 0)
    /\ Elem(obj.comps["level_dependent_constants"], 0, 1) = Val(3, 0)

WriteModes == {UPDATE_MODE, CREATE_MODE}

(* C2: close is idempotent.  On an object opened in UPDATE_MODE or         *)
(* CREATE_MODE, _write_new is entered at most once however many times      *)
(* close() is called, and every call of close() after the first returns    *)
(* without an error, at once, leaving the file system as it was.           *)
C2_CloseIdempotent ==
    [][ /\ hist'.writes <= 1
        /\ (/\ obj.mode \in WriteModes
            /\ hist.closes >= 1
            /\ hist'.closes = hist.closes + 1)
           => /\ last' = Last("close", "ok")
              /\ cl' = Idle
              /\ fs' = fs
              /\ hist'.writes = hist.writes ]_vars

(* C2: close() was called twice on an object opened for writing; the first *)
(* call entered _write_new and raised, the second returned.                *)
C2_ClosedTwice ==
    /\ obj.mode \in WriteModes
    /\ hist.closes = 2
    /\ hist.writes = 1
    /\ prev.t = "none"
    /\ cl.pc = "idle"
    /\ last = Last("close", "ok")

(* C3: atomic replacement.  From the call of close() on an object opened   *)
(* in UPDATE_MODE or CREATE_MODE on, at every step and after it ended, the *)
(* path holds a file, and that file is either the one it held when close() *)
(* was called or the complete new file.                                    *)
C3_AtomicReplacement ==
    (obj.mode \in WriteModes /\ hist.closes >= 1)
        => /\ fs.orig.t = "file"
           /\ fs.orig = hist.atClose \/ fs.orig = hist.written

(* C3: close() raised after os.unlink and the path holds no file. *)
C3_PathLost ==
    /\ obj.mode \in WriteModes
    /\ cl.pc = "idle"
    /\ last = Last("close", "OSError")
    /\ hist.atClose.t = "file"
    /\ fs.orig = Missing

(* The errors close() raises out of _write_new: from a field's read_data,  *)
(* from the layout of the header, from a write.                            *)
WriteErrors ==
    {"AttributeError", "KeyError", "Unsupported number format",
     "Unsupported lbpack", "reshape ValueError", "Inconsistent header lengths",
     "IOError"}

(* C4: when _write_new fails inside close(), no temporary file that        *)
(* close() made is left once close() has raised.                           *)
C4_TempDiscarded ==
    (cl.pc = "idle" /\ last.op = "close" /\ last.status \in WriteErrors)
        => \A i \in DOMAIN fs.temps : fs.temps[i] = Missing

(* C4: a write to the new file failed, close() has raised, and the         *)
(* temporary file that _write_new opened is still there.                   *)
C4_TempLeft ==
    /\ cl.pc = "idle"
    /\ last = Last("close", "IOError")
    /\ Len(fs.temps) = 1
    /\ fs.temps[1].t = "file"

(* _write_new ran to its end on an object opened for writing: hist.written *)
(* is the new file as it closed it.                                        *)
Written == obj.mode \in WriteModes /\ hist.written.t = "file"

(* The word at offset o of the k-th LOOKUP column of a file. *)
LookupWord(f, k, o) ==
    IntOf(WordAt(f, (f.hdr.start["lookup"] - 1)
                        + (k - 1) * f.hdr.shape["lookup"][1] + o))

(* C5: sector alignment.  In a file written with a dataset type other than *)
(* 1 and 2, the payload of every field that has data starts at a byte      *)
(* offset (lbegin times the word size) that is a multiple of 2048 words,   *)
(* lbnrec is a multiple of 2048 no smaller than the number of elements,    *)
(* and the length of the DATA component in the fixed length header is a    *)
(* multiple of 2048.                                                       *)
C5_SectorAligned ==
    (Written /\ obj.header.dataset_type \notin {1, 2}) =>
        LET f == hist.written
            sector_size == _WORDS_PER_SECTOR * f.ws
        IN  /\ \A k \in DOMAIN obj.fields :
                  obj.fields[k].provider.t # "none" =>
                      /\ LookupWord(f, k, LBEGIN_OFFSET)
                            = obj.fields[k].ints[LBEGIN_OFFSET]
                      /\ (LookupWord(f, k, LBEGIN_OFFSET) * f.ws) % sector_size = 0
                      /\ LookupWord(f, k, LBNREC_OFFSET) % _WORDS_PER_SECTOR = 0
                      /\ LET out == read_data(obj.fields[k], hist.atClose, TRUE)
                         IN  Size(out.data) <= LookupWord(f, k, LBNREC_OFFSET)
            /\ obj.fields # << >> =>
                  f.hdr.shape["data"][1] % _WORDS_PER_SECTOR = 0

(* C5: a file of two fields with data was written with padding: the        *)
(* second payload starts one sector after the first.                       *)
C5_TwoPayloads ==
    /\ Written /\ obj.header.dataset_type \notin {1, 2}
    /\ Len(obj.fields) = 2
    /\ obj.fields[1].provider.t # "none" /\ obj.fields[2].provider.t # "none"
    /\ LookupWord(hist.written, 1, LBEGIN_OFFSET) = _WORDS_PER_SECTOR
    /\ LookupWord(hist.written, 2, LBEGIN_OFFSET) = 2 * _WORDS_PER_SECTOR
    /\ hist.written.hdr.shape["data"] = <<2 * _WORDS_PER_SECTOR>>

(* The fields of an object do not all have the same num_values(). *)
Differing(fields) ==
    \E i, j \in DOMAIN fields : num_values(fields[i]) # num_values(fields[j])

(* C6: _prepare_fixed_length_header raises 'Inconsistent header lengths'   *)
(* exactly when there is at least one field and the fields differ in       *)
(* num_values(); when there are fields and they agree it sets lookup_shape *)
(* to (that number, the number of fields); and from a failure to the end   *)
(* of close() the path holds what it held when close() was called.         *)
C6_LayoutError ==
    [][ /\ hist'.writes = hist.writes + 1 =>
              /\ (cl'.err = "Inconsistent header lengths")
                    <=> (obj.fields # << >> /\ Differing(obj.fields))
              /\ (obj.fields # << >> /\ ~Differing(obj.fields)) =>
                    /\ cl'.err = "ok"
                    /\ obj'.header.shape["lookup"]
                          = <<num_values(obj.fields[1]), Len(obj.fields)>>
              /\ fs' = fs
        /\ (cl'.err = "Inconsistent header lengths"
              \/ last' = Last("close", "Inconsistent header lengths"))
              => fs'.orig = hist'.atClose ]_vars

(* C6: close() raised the layout error for two fields of 64 and 63 words   *)
(* and the path still holds what it held.                                  *)
C6_Inconsistent ==
    /\ cl.pc = "idle"
    /\ last = Last("close", "Inconsistent header lengths")
    /\ Len(obj.fields) = 2
    /\ num_values(obj.fields[1]) # num_values(obj.fields[2])
    /\ fs.orig = hist.atClose

(* The first integer word of a field is -99. *)
IsPadding(field) == field.ints[LBYR_OFFSET] = -99

(* A provider bound to an offset of the file's source. *)
Located(field) == field.provider.t \in {"normal", "boundary"}

(* _write_new passes a field in its loop over self.fields. *)
WritesField == cl.pc = "data" /\ cl.k <= Len(obj.fields)

(* The file the object was opened on was written by an earlier object      *)
(* (prev, as its close() left it) and opened again.                        *)
ReopenedAfterWrite == obj.t = "ffv" /\ obj.reopened /\ obj.inited

(* C7 as stated: a field whose first integer word is -99 never has a       *)
(* provider bound to the file and its read_data() returns None, as held    *)
(* before a write and again after the file is written and reopened; and    *)
(* _write_new writes no payload for it and leaves lbegin and lbnrec as     *)
(* they were.                                                              *)
C7_PaddingNeverHasData ==
    [][ /\ \A k \in DOMAIN obj'.fields :
              IsPadding(obj'.fields[k]) =>
                  /\ ~Located(obj'.fields[k])
                  /\ read_data(obj'.fields[k], fs'.orig, obj'.isOpen)
                        = Outcome("ok", NoData, FALSE, 0)
        /\ (WritesField /\ IsPadding(obj.fields[cl.k])) =>
              /\ fs' = fs
              /\ obj'.fields[cl.k] = obj.fields[cl.k] ]_vars

(* C7, for the fields that hold no array: a field whose first integer word *)
(* is -99 never has a provider bound to the file; every such field that    *)
(* __init__ makes from a LOOKUP column has no provider at all; one without *)
(* a provider reads as None, gets no payload and no change of its words    *)
(* from _write_new, and is found again, with the same integer words and no *)
(* provider, when the written file is opened again.                        *)
C7_PaddingFromFile ==
    [][ /\ \A k \in DOMAIN obj'.fields :
              IsPadding(obj'.fields[k]) =>
                  /\ ~Located(obj'.fields[k])
                  /\ last'.op = "open" => obj'.fields[k].provider = NoData
                  /\ obj'.fields[k].provider = NoData =>
                        read_data(obj'.fields[k], fs'.orig, obj'.isOpen)
                           = Outcome("ok", NoData, FALSE, 0)
        /\ (/\ WritesField
            /\ IsPadding(obj.fields[cl.k])
            /\ obj.fields[cl.k].provider = NoData)
              => /\ fs' = fs
                 /\ obj' = obj
                 /\ cl' = [cl EXCEPT !.k = @ + 1]
        /\ ReopenedAfterWrite' =>
              \A k \in DOMAIN prev'.fields :
                  (IsPadding(prev'.fields[k]) /\ prev'.fields[k].provider = NoData)
                      => /\ k \in DOMAIN obj'.fields
                         /\ obj'.fields[k].ints = prev'.fields[k].ints
                         /\ obj'.fields[k].provider = NoData ]_vars

(* C7: a model dump (relative addressing) with a -99 column was opened for *)
(* update, written, and opened again; the column's field has no provider   *)
(* and read_data() on it returned None.                                    *)
C7_PaddingReopened ==
    /\ ReopenedAfterWrite
    /\ prev.mode = UPDATE_MODE
    /\ Len(obj.fields) = 3
    /\ prev.fields[1].ints[LBYR_OFFSET] = 2001
    /\ IsPadding(prev.fields[3]) /\ IsPadding(obj.fields[3])
    /\ obj.fields[3].provider = NoData
    /\ last = [op |-> "read_data", status |-> "ok", k |-> 3,
               out |-> Outcome("ok", NoData, FALSE, 0)]

(* The class the stated schema selection gives a release number. *)
SchemaFor(lbrel) ==
    IF lbrel = 2 THEN "Field2" ELSE IF lbrel = 3 THEN "Field3" ELSE "Field"

(* C8: schema selection on open is total.  Opening a file that holds a     *)
(* whole fixed length header and a LOOKUP succeeds whatever the lbrel word *)
(* of each column is, and the field of each column is a Field2 when lbrel  *)
(* is 2, a Field3 when it is 3 and a plain Field otherwise.                *)
C8_SchemaTotal ==
    (/\ cl.pc = "idle" /\ last.op = "open"
     /\ obj.t = "ffv" /\ obj.mode \in {READ_MODE, UPDATE_MODE}
     /\ fs.orig.len >= NUM_WORDS
     /\ fs.orig.hdr.start["lookup"] > 0)
        => /\ last.status = "ok"
           /\ Len(obj.fields) = fs.orig.hdr.shape["lookup"][2]
           /\ \A k \in DOMAIN obj.fields :
                 obj.fields[k].cls = SchemaFor(LookupWord(fs.orig, k, LBREL_OFFSET))

(* C8: a file whose one column has lbrel = 4 was opened: __init__ raised   *)
(* the KeyError of _FIELD_CLASSES.                                         *)
C8_UnknownRelease ==
    /\ cl.pc = "idle" /\ last = Last("open", "KeyError")
    /\ obj.t = "ffv" /\ ~obj.inited
    /\ fs.orig = ReleaseFile(4, 0)

(* C10: the file handle is released on every exit path.  Once __init__ has *)
(* raised after it opened the source, and once close() has returned or     *)
(* raised, in any mode, the object holds no open handle.                   *)
C10_HandleReleased ==
    (/\ cl.pc = "idle"
     /\ obj.t = "ffv"
     /\ \/ last.op = "open" /\ last.status # "ok"
        \/ last.op = "close")
        => ~obj.isOpen

(* C10: __init__ raised on a file shorter than the fixed length header and *)
(* the source it opened is still open.                                     *)
C10_HandleLeft ==
    /\ cl.pc = "idle"
    /\ last = Last("open", "Incorrect number of words")
    /\ fs.orig = ShortFile
    /\ obj.t = "ffv" /\ obj.isOpen

---------------------------------------------------------------------------
(* Decoding: files of one field each, for every packing code of interest,  *)
(* opened for reading and decoded.                                         *)

(* Packing codes: every compression 0..3 under a supported number format,  *)
(* unsupported number formats, and codes with digits above the thousands.  *)
PackingCodes == {0, 1, 2, 3, 1000, 2000, 2001, 2003, 3002, 4000, 10001, 12002}

(* The values of lbuser1: the three of _DATA_DTYPES and one other. *)
DataTypes == {1, 2, 3, 4}

(* A file of one field of 2 x 1 values (lblrec 2, lbnrec 2, lbhem 101)     *)
(* with the given packing code and data type, and two words of payload.    *)
DecodeFile(ws, dataset_type, lbpack, lbuser1) ==
    LET kind == IF lbuser1 = 1 THEN "f" ELSE "i"
    IN  DiskFile(ws, dataset_type,
                 << Col(Ints(2006, 2, 101, 2, 1, lbpack, 2, _WORDS_PER_SECTOR, 2,
                             lbuser1)) >>,
                 << <<_WORDS_PER_SECTOR,
                      <<Word(kind, Val(5, 0)), Word(kind, Val(6, 0))>> >> >>)

DecodeFiles ==
    { DecodeFile(ws, d, c, u) :
        ws \in WordSizes, d \in {3, 5}, c \in PackingCodes, u \in DataTypes }

InitDecode ==
    /\ \E f \in DecodeFiles : fs = [orig |-> f, temps |-> << >>]
    /\ obj = NoObject
    /\ prev = NoObject
    /\ cl = Idle
    /\ last = Last("none", "ok")
    /\ hist = [opens |-> 0, closes |-> 0, writes |-> 0, edits |-> 0,
               wrote |-> FALSE, raised |-> FALSE, atClose |-> Missing,
               written |-> Missing]

NextDecode ==
    \/ \E word_size \in WordSizes : Open(READ_MODE, word_size)
    \/ \E k \in DOMAIN obj.fields : ReadData(k)

SpecDecode == InitDecode /\ [][NextDecode]_vars

(* The ValueErrors of the providers for a packing code they do not support. *)
Unsupported == {"Unsupported number format", "Unsupported lbpack"}

(* What a provider's read_data must have returned for the field it was     *)
(* last called on, when the set of compressions it supports is comps and   *)
(* an uncompressed payload has the given shape and number of elements.     *)
DecodedAs(field, comps, shape, count) ==
    LET code == field.ints[LBPACK_OFFSET]
        number_format == (code \div 1000) % 10
        compression == code % 1000
        supported == number_format \in {0, 2, 3} /\ compression \in comps
        width == IF compression = 0 THEN obj.word_size ELSE _CRAY32_SIZE
        data_size == ((field.ints[LBNREC_OFFSET] * 2) - 1) * _WGDOS_SIZE
        lbuser1 == field.ints[LBUSER1_OFFSET]
    IN  /\ (last.status \in Unsupported) <=> ~supported
        /\ (supported /\ compression = 1) =>
              last.out = Outcome("ok",
                                 wgdos_unpack(data_size, field.ints[LBROW_OFFSET],
                                              field.ints[LBNPT_OFFSET],
                                              field.reals[BMDI_OFFSET - _NUM_FIELD_INTS]),
                                 TRUE, data_size)
        /\ (supported /\ compression \in {0, 2}) =>
              /\ ~last.out.unpack
              /\ IF lbuser1 \notin {1, 2, 3}
                 THEN last.status = "KeyError"
                 ELSE /\ last.status = "ok"
                      /\ last.out.nbytes = count * width
                      /\ last.out.data.t = "array"
                      /\ last.out.data.shape = shape
                      /\ Size(last.out.data) = count
                      /\ last.out.data.kind = (IF lbuser1 = 1 THEN "f" ELSE "i")

(* read_data() was just called on a field with a provider. *)
Decoded ==
    /\ last.op = "read_data"
    /\ last.k \in DOMAIN obj.fields
    /\ Located(obj.fields[last.k])

---------------------------------------------------------------------------
(* Lazy decoding: files of several fields, one of which cannot be decoded *)

(* Packing codes no provider decodes: an unknown compression (3), an       *)
(* unknown number format (1), and both.                                    *)
BadCodes == {3, 1000, 1003}

(* The number of records of a file of this section. *)
LazyCount == 3

(* The payload of the k-th record: two integer words. *)
LazyPayload(k) == <<IntWord(10 * k + 1), IntWord(10 * k + 2)>>

(* A file of LazyCount records of two words each, laid out one after the   *)
(* other from the start of the data block; the record at index bad has     *)
(* the packing code lbpack, the others are unpacked.  lbnrec = 0 in every  *)
(* record makes the file relatively addressed.                             *)
LazyFile(ws, dataset_type, bad, lbpack, lbnrec) ==
    DiskFile(ws, dataset_type,
             [k \in 1..LazyCount |->
                Col(Ints(2010 + k, 2, 101, 2, 1, IF k = bad THEN lbpack ELSE 0, 2,
                         _WORDS_PER_SECTOR + 2 * (k - 1), lbnrec, 2))],
             [k \in 1..LazyCount |->
                <<_WORDS_PER_SECTOR + 2 * (k - 1), LazyPayload(k)>>])

LazyFiles ==
    { LazyFile(ws, d, bad, c, n) :
        ws \in WordSizes, d \in {3, 5}, bad \in 1..LazyCount, c \in BadCodes,
        n \in {0, 2} }

InitLazy ==
    /\ \E f \in LazyFiles : fs = [orig |-> f, temps |-> << >>]
    /\ obj = NoObject
    /\ prev = NoObject
    /\ cl = Idle
    /\ last = Last("none", "ok")
    /\ hist = [opens |-> 0, closes |-> 0, writes |-> 0, edits |-> 0,
               wrote |-> FALSE, raised |-> FALSE, atClose |-> Missing,
               written |-> Missing]

NextLazy ==
    \/ \E word_size \in WordSizes : Open(READ_MODE, word_size)
    \/ \E k \in DOMAIN obj.fields : ReadData(k)

SpecLazy == InitLazy /\ [][NextLazy]_vars

(* The end of the LOOKUP table of the open file, in bytes. *)
LookupEnd ==
    ((obj.header.start["lookup"] - 1)
        + obj.header.shape["lookup"][1] * obj.header.shape["lookup"][2])
    * obj.word_size

(* What read_data returns for the k-th field through a handle on which no  *)
(* read_data was ever called.                                              *)
FirstRead(k) ==
    read_data(obj.fields[k],
              Source(fs.orig, InitTell(fs.orig, obj.mode, obj.word_size)), TRUE)

(* C11: decoding is lazy and a failure stays with its field.  Opening a    *)
(* file in which one field has an unsupported packing code succeeds, makes *)
(* a field of every LOOKUP column and leaves the handle at the end of the  *)
(* LOOKUP table, having read no payload.  Every read_data() on the field   *)
(* with the unsupported code raises its ValueError; every read_data() on   *)
(* another field returns the two words of that field's own payload, which  *)
(* is what it returns on a handle no call was made on, whatever calls,     *)
(* failed or not, were made before it.                                     *)
C11_FailuresIsolated ==
    /\ last.op = "open" =>
          /\ last.status = "ok"
          /\ Len(obj.fields) = LazyCount
          /\ \A k \in 1..LazyCount : Located(obj.fields[k])
          /\ obj.tell = LookupEnd
          /\ obj.tell <= (obj.header.start["data"] - 1) * obj.word_size
    /\ last.op = "read_data" =>
          LET field == obj.fields[last.k]
          IN  /\ last.out = FirstRead(last.k)
              /\ IF field.ints[LBPACK_OFFSET] \in BadCodes
                 THEN last.status \in Unsupported
                 ELSE /\ last.status = "ok"
                      /\ last.out.data.t = "array"
                      /\ last.out.data.mem =
                            [i \in 1..2 |-> Val(10 * last.k + i, 0)]

(* C11: a field was decoded on a handle on which a read_data() had raised. *)
C11_ReadAfterFailure ==
    /\ last.op = "read_data"
    /\ last.status = "ok"
    /\ obj.isOpen /\ hist.raised
    /\ obj.fields[last.k].ints[LBPACK_OFFSET] = 0
    /\ \E j \in DOMAIN obj.fields :
          /\ j < last.k
          /\ obj.fields[j].ints[LBPACK_OFFSET] \in BadCodes

---------------------------------------------------------------------------
(* Layout: files created with a component that fills most of the sector    *)
(* the LOOKUP table starts in.                                             *)

(* Lengths of integer_constants that leave, between the component and the  *)
(* end of the first sector, room for two LOOKUP columns of 64 words, for   *)
(* one, for one less a word, for none, and that reach into the next sector. *)
LayoutSizes ==
    { (_WORDS_PER_SECTOR - NUM_WORDS) - room : room \in {128, 64, 63, 0, -1} }

LayoutValues ==
    { Array(<<n>>, "C", "i", [i \in 1..n |-> Val(3, 0)]) : n \in LayoutSizes }

(* The field a caller appends: a Field2 of 64 header words and an array of *)
(* two values.                                                             *)
LayoutFields ==
    { Field("Field2", 45, 19, Ints(2014, 2, 0, 1, 2, 0, 2, IMDI, IMDI, 1), Reals(19),
            Array(<<1, 2>>, "C", "f", <<Val(1, 1), Val(2, 0)>>)) }

InitLayout ==
    /\ fs = [orig |-> Missing, temps |-> << >>]
    /\ obj = NoObject
    /\ prev = NoObject
    /\ cl = Idle
    /\ last = Last("none", "ok")
    /\ hist = [opens |-> 0, closes |-> 0, writes |-> 0, edits |-> 0,
               wrote |-> FALSE, raised |-> FALSE, atClose |-> Missing,
               written |-> Missing]

(* A file is created, given a component and fields, closed with no error   *)
(* of the file system, and opened again and read.                          *)
NextLayout ==
    \/ \E mode \in {CREATE_MODE, READ_MODE}, word_size \in WordSizes :
          Open(mode, word_size)
    \/ \E value \in LayoutValues : SetComponent("integer_constants", value)
    \/ \E field \in LayoutFields : AppendField(field)
    \/ \E k \in DOMAIN obj.fields : ReadData(k)
    \/ Close
    \/ create_temp_filename
    \/ Prepare
    \/ OpenNew
    \/ WriteNewComponents(TRUE)
    \/ WriteNewField(TRUE)
    \/ WriteNewLookup(TRUE)
    \/ WriteNewHeader(TRUE)
    \/ Unlink(TRUE)
    \/ Move("rename")
    \/ Finally

SpecLayout == InitLayout /\ [][NextLayout]_vars

(* _prepare_fixed_length_header has laid out the header of an object that  *)
(* has fields.                                                             *)
Prepared ==
    /\ obj.t = "ffv" /\ obj.mode \in WriteModes /\ obj.inited
    /\ obj.fields # << >>
    /\ hist.writes >= 1
    /\ cl.err # "Inconsistent header lengths"
    /\ last # Last("close", "Inconsistent header lengths")

(* The blocks before the DATA block, in file order. *)
BlockNames == [i \in 1..Len(_COMPONENTS) |-> _COMPONENTS[i][1]] \o <<"lookup">>

(* The number of the first word after a block of a header. *)
BlockEnd(h, name) == h.start[name] + Product(h.shape[name])

(* C12: after _prepare_fixed_length_header, and in the file _write_new     *)
(* has written, the fixed length header, each component that is present,   *)
(* the LOOKUP table (num_values x number of fields words from              *)
(* lookup_start) and the DATA block (from data_start) lie one after the    *)
(* other without overlap, so data_start >= lookup_start + width * count;   *)
(* and the payload of every field is in the written file where its lbegin  *)
(* says, not overwritten by the LOOKUP table.                              *)
C12_RegionsDisjoint ==
    /\ Prepared =>
          LET h == obj.header
          IN  \A i \in DOMAIN BlockNames :
                  h.start[BlockNames[i]] > 0 =>
                      /\ h.start[BlockNames[i]] >= NUM_WORDS + 1
                      /\ \A j \in 1..(i - 1) :
                            h.start[BlockNames[j]] > 0 =>
                                BlockEnd(h, BlockNames[j]) <= h.start[BlockNames[i]]
                      /\ BlockEnd(h, BlockNames[i]) <= h.start["data"]
    /\ (Prepared /\ Written) =>
          \A k \in DOMAIN obj.fields :
              LET data == obj.fields[k].provider
                  lbegin == obj.fields[k].ints[LBEGIN_OFFSET]
              IN  data.t = "array" =>
                      \A i \in DOMAIN data.mem :
                          ValOf(WordAt(hist.written, lbegin + i - 1), data.kind)
                             = data.mem[i]

(* C12: a file with 1792 words of integer_constants and one field was      *)
(* written: lookup_start = data_start = 2049, and the word the payload was *)
(* written to holds the first word of the LOOKUP column.                   *)
C12_LookupOverPayload ==
    /\ Prepared /\ Written
    /\ Len(obj.fields) = 1
    /\ hist.written.hdr.start["lookup"] = _WORDS_PER_SECTOR + 1
    /\ hist.written.hdr.start["data"] = _WORDS_PER_SECTOR + 1
    /\ hist.written.hdr.shape["lookup"] = <<64, 1>>
    /\ obj.fields[1].ints[LBEGIN_OFFSET] = _WORDS_PER_SECTOR
    /\ WordAt(hist.written, _WORDS_PER_SECTOR)
          = IntWord(obj.fields[1].ints[LBYR_OFFSET])

---------------------------------------------------------------------------
(* Addressing: files whose LOOKUP mixes records and padding columns, under *)
(* both addressing conventions.                                            *)

(* The number of LOOKUP columns of a file of this section. *)
AddressCount == 3

(* The word offset of the payload of column k when the columns in pads are *)
(* padding: the payloads, of two words each, lie one after the other from  *)
(* the start of the data block.                                            *)
PayloadAt(k, pads) ==
    _WORDS_PER_SECTOR + 2 * Cardinality({j \in 1..(k - 1) : j \notin pads})

(* A file of AddressCount columns: those in pads are padding (every word   *)
(* -99), the others are records of two words (lblrec = 2) with lbegin the  *)
(* place of their payload and the given lbnrec; lbnrec = 0 is a model      *)
(* dump, addressed relatively.                                             *)
AddressFile(ws, dataset_type, lbnrec, pads) ==
    DiskFile(ws, dataset_type,
             [k \in 1..AddressCount |->
                IF k \in pads THEN Col(PaddingInts)
                ELSE Col(Ints(2020 + k, 2, 101, 2, 1, 0, 2, PayloadAt(k, pads),
                              lbnrec, 2))],
             [k \in 1..AddressCount |->
                <<PayloadAt(k, pads),
                  IF k \in pads THEN << >>
                  ELSE <<IntWord(10 * k + 1), IntWord(10 * k + 2)>> >>])

AddressFiles ==
    { AddressFile(ws, d, n, pads) :
        ws \in WordSizes, d \in {3, 5}, n \in {0, 2},
        pads \in SUBSET (1..AddressCount) }

InitAddress ==
    /\ \E f \in AddressFiles : fs = [orig |-> f, temps |-> << >>]
    /\ obj = NoObject
    /\ prev = NoObject
    /\ cl = Idle
    /\ last = Last("none", "ok")
    /\ hist = [opens |-> 0, closes |-> 0, writes |-> 0, edits |-> 0,
               wrote |-> FALSE, raised |-> FALSE, atClose |-> Missing,
               written |-> Missing]

NextAddress ==
    \/ \E word_size \in WordSizes : Open(READ_MODE, word_size)
    \/ \E k \in DOMAIN obj.fields : ReadData(k)

SpecAddress == InitAddress /\ [][NextAddress]_vars

(* The sum of the lblrec words of the first n LOOKUP columns of a file. *)
RECURSIVE RecordLengths(_, _)
RecordLengths(f, n) ==
    IF n = 0 THEN 0
    ELSE RecordLengths(f, n - 1) + LookupWord(f, n, LBLREC_OFFSET)

(* A file was opened and __init__ made its fields. *)
Opened ==
    /\ last = Last("open", "ok")
    /\ obj.t = "ffv" /\ obj.inited
    /\ fs.orig.t = "file" /\ fs.orig.hdr.start["lookup"] > 0

(* The file is read with relative addressing: lbnrec of column 0 is zero. *)
Relative == LookupWord(fs.orig, 1, LBNREC_OFFSET) = 0

(* The offsets __init__ gave the providers are those of the convention the *)
(* lbnrec word of column 0 selects: lbegin * word_size of the column       *)
(* itself, or the data start plus the lblrec words of all columns before   *)
(* it; and a column has a provider exactly when its first word is not -99. *)
OffsetsAsStated ==
    \A k \in DOMAIN obj.fields :
        /\ Located(obj.fields[k]) <=> LookupWord(fs.orig, k, LBYR_OFFSET) # -99
        /\ ~Located(obj.fields[k]) => obj.fields[k].provider = NoData
        /\ Located(obj.fields[k]) =>
              obj.fields[k].provider.offset =
                 IF Relative
                 THEN (fs.orig.hdr.start["data"] - 1) * obj.word_size
                         + obj.word_size * RecordLengths(fs.orig, k - 1)
                 ELSE LookupWord(fs.orig, k, LBEGIN_OFFSET) * obj.word_size

(* Under relative addressing the offsets of successive records with a      *)
(* provider never decrease and the lblrec words of each end before the     *)
(* next begins.                                                            *)
OffsetsAscend ==
    Relative =>
        \A j, k \in DOMAIN obj.fields :
            (j < k /\ Located(obj.fields[j]) /\ Located(obj.fields[k])) =>
                /\ obj.fields[j].provider.offset <= obj.fields[k].provider.offset
                /\ obj.fields[j].provider.offset
                      + LookupWord(fs.orig, j, LBLREC_OFFSET) * obj.word_size
                         <= obj.fields[k].provider.offset

(* C13: addressing on open is chosen for the whole file from the lbnrec    *)
(* word of column 0 alone: when it is not zero every column whose first    *)
(* word is not -99 gets the offset lbegin * word_size from its own lbegin; *)
(* when it is zero such a column gets (data_start - 1) * word_size plus    *)
(* word_size times the sum of the lblrec words of all columns before it;   *)
(* so that the offsets of successive records with data never decrease and  *)
(* their payloads do not overlap.                                          *)
C13_Addressing ==
    Opened => (OffsetsAsStated /\ OffsetsAscend)

(* C13: a model dump of a record, a padding column and a second record was *)
(* opened; the second record's provider has a smaller offset than the      *)
(* first's, and read_data() on it did not return its payload.              *)
C13_OffsetDecreases ==
    /\ obj.t = "ffv" /\ obj.inited /\ obj.isOpen
    /\ Relative
    /\ Len(obj.fields) = 3
    /\ Located(obj.fields[1]) /\ ~Located(obj.fields[2]) /\ Located(obj.fields[3])
    /\ obj.fields[3].provider.offset < obj.fields[1].provider.offset
    /\ last.op = "read_data" /\ last.k = 3 /\ last.status = "ok"
    /\ last.out.data.mem # <<Val(31, 0), Val(32, 0)>>
    /\ ValOf(WordAt(fs.orig, LookupWord(fs.orig, 3, LBEGIN_OFFSET)), "i") = Val(31, 0)

====
